---- MODULE Spec2Model ----
(***************************************************************************)
(* QuFRes: patch decomposition, amplitude encoding, resampling-circuit     *)
(* construction and measurement accumulation / reconstruction.             *)
(*                                                                         *)
(* Arrays (numpy ndarrays) are records [shape, data]: shape is the tuple   *)
(* of axis lengths, data the entries in row-major (C) order, so that the   *)
(* entry at 0-based flat index k is data[k + 1].  reshape keeps data and   *)
(* changes shape; moveaxis permutes the entries.                           *)
(*                                                                         *)
(* Real numbers are exact rationals <<num, den>> in lowest terms; floating *)
(* point rounding is not modelled.  The IEEE special values produced by a  *)
(* division by zero are the strings "nan" and "inf".                       *)
(***************************************************************************)
EXTENDS Integers, Sequences, FiniteSets, TLC

VARIABLES
    pc,         \* position of the driver of the operation under study
    inp,        \* the inputs handed to the operation(s)
    patches,    \* result of patchify
    depatched,  \* result of depatchify
    enc,        \* result of encode: [states, norms]
    self,       \* attributes of a Resampling_Sim object
    hist,       \* history of the calls made on the object
    build       \* result of a circuit builder

vars == <<pc, inp, patches, depatched, enc, self, hist, build>>

\* ------------------------------------------------------------------ bounds

MaxRank == 3        \* signals have 1..MaxRank axes
MaxCells == 6       \* a signal of the patch study has at most MaxCells entries

\* Python's None (a patch_shape is a non-empty tuple, so <<>> is free).
None == <<>>

\* Placeholder of a variable that the specification at hand does not use.
Unused == <<>>

\* --------------------------------------------------------- numpy helpers

RECURSIVE Prod(_)
Prod(s) == IF s = <<>> THEN 1 ELSE Head(s) * Prod(Tail(s))

\* Row-major multi-index (0-based entries) of the 0-based flat index k.
RECURSIVE Unravel(_, _)
Unravel(k, shape) ==
    IF shape = <<>> THEN <<>>
    ELSE LET rest == Prod(Tail(shape))
         IN  <<k \div rest>> \o Unravel(k % rest, Tail(shape))

\* 0-based flat index of a multi-index.
RECURSIVE Ravel(_, _)
Ravel(idx, shape) ==
    IF shape = <<>> THEN 0
    ELSE Head(idx) * Prod(Tail(shape)) + Ravel(Tail(idx), Tail(shape))

\* ndarray.reshape: same entries in the same row-major order.
reshape(a, newshape) == [shape |-> newshape, data |-> a.data]

\* np.moveaxis(a, source, destination) for source and destination naming every
\* axis (0-based): axis source[i] of a becomes axis destination[i] of the result.
moveaxis(a, source, destination) ==
    LET r == Len(a.shape)
        order == [p \in 1..r |->
                    source[CHOOSE i \in 1..r : destination[i] = p - 1]]
        newshape == [p \in 1..r |-> a.shape[order[p] + 1]]
        from(k) ==
            LET nidx == Unravel(k, newshape)
                oidx == [q \in 1..r |->
                            nidx[CHOOSE p \in 1..r : order[p] = q - 1]]
            IN  Ravel(oidx, a.shape)
    IN  [shape |-> newshape,
         data |-> [k \in 1..Prod(newshape) |-> a.data[from(k - 1) + 1]]]

\* np.all(x == y) for two shapes of the same rank.
np_all_eq(x, y) == Len(x) = Len(y) /\ \A i \in 1..Len(x) : x[i] = y[i]

\* np.arange(0, n)
arange(n) == [i \in 1..n |-> i - 1]

\* np.array(list(zip(np.arange(0,d), np.arange(d,2*d)))).flatten():
\* (0, d, 1, d+1, ..., d-1, 2d-1)
zip_flat(d) ==
    [i \in 1..(2 * d) |-> IF i % 2 = 1 THEN (i - 1) \div 2
                                       ELSE d + ((i - 2) \div 2)]

\* -------------------------------------------------- encoding.py: patches

\* patchify raises ValueError: some axis is not divisible by its patch length.
patchify_raises(signal, patch_shape) ==
    /\ patch_shape # None
    /\ ~np_all_eq(signal.shape, patch_shape)
    /\ \E i \in 1..Len(signal.shape) : signal.shape[i] % patch_shape[i] # 0

\* Axis order handed to moveaxis by patchify.
patchify_new_order_swapped(d) == arange(2 * d)
patchify_new_order(d) == zip_flat(d)

patchify(signal, patch_shape) ==
    LET signal_shape == signal.shape
        d == Len(signal_shape)
    IN  IF patch_shape = None \/ np_all_eq(signal_shape, patch_shape)
        THEN signal
        ELSE LET num_patch_ax ==
                     [i \in 1..d |-> signal_shape[i] \div patch_shape[i]]
                 temp_shapes ==
                     [i \in 1..(2 * d) |->
                         IF i % 2 = 1 THEN num_patch_ax[(i + 1) \div 2]
                                      ELSE patch_shape[i \div 2]]
                 og_order == arange(2 * d)
                 new_order == patchify_new_order(d)
                 moved == moveaxis(reshape(signal, temp_shapes),
                                   og_order, new_order)
             IN  reshape(moved,
                         <<Prod(moved.shape) \div Prod(patch_shape)>>
                             \o patch_shape)

\* depatchify raises ValueError: the sizes do not match.
depatchify_raises(p, out_shape) == Prod(out_shape) # Prod(p.shape)

depatchify(p, out_shape) ==
    LET patch_shape == IF Len(p.shape) # Len(out_shape)
                       THEN Tail(p.shape) ELSE p.shape
        signal_shape == out_shape
    IN  IF np_all_eq(out_shape, patch_shape)
        THEN p
        ELSE LET d == Len(out_shape)
                 num_patch_ax ==
                     [i \in 1..d |-> signal_shape[i] \div patch_shape[i]]
                 new_order == arange(2 * d)
                 og_order == zip_flat(d)
                 moved == moveaxis(reshape(p, num_patch_ax \o patch_shape),
                                   new_order, og_order)
             IN  reshape(moved, out_shape)

\* ------------------------------------------------------ the patch study

\* Shapes of rank r with at most n entries.
ShapesOf(r, n) == {s \in [1..r -> 1..n] : Prod(s) <= n}

PatchValues == {0, 1}

\* Signals of the patch study.
PatchSignals ==
    UNION {{[shape |-> s, data |-> dta] :
               dta \in [1..Prod(s) -> PatchValues]} :
           s \in UNION {ShapesOf(r, MaxCells) : r \in 1..MaxRank}}

\* Patch shapes offered for a signal: None, and every shape of the signal's
\* rank that fits into the signal (divisor or not).
PatchShapesFor(s) ==
    {None} \cup {p \in [1..Len(s) -> 1..MaxCells] :
                    \A i \in 1..Len(s) : p[i] <= s[i]}

InitPatch ==
    /\ pc = "start"
    /\ \E s \in PatchSignals :
         \E p \in PatchShapesFor(s.shape) :
            inp = [signal |-> s, patch_shape |-> p]
    /\ patches = Unused /\ depatched = Unused
    /\ enc = Unused /\ self = Unused /\ hist = Unused /\ build = Unused

PatchifyOk ==
    /\ pc = "start"
    /\ ~patchify_raises(inp.signal, inp.patch_shape)
    /\ patches' = patchify(inp.signal, inp.patch_shape)
    /\ pc' = "patchified"
    /\ UNCHANGED <<inp, depatched, enc, self, hist, build>>

PatchifyRaises ==
    /\ pc = "start"
    /\ patchify_raises(inp.signal, inp.patch_shape)
    /\ pc' = "ValueError"
    /\ UNCHANGED <<inp, patches, depatched, enc, self, hist, build>>

DepatchifyOk ==
    /\ pc = "patchified"
    /\ ~depatchify_raises(patches, inp.signal.shape)
    /\ depatched' = depatchify(patches, inp.signal.shape)
    /\ pc' = "depatchified"
    /\ UNCHANGED <<inp, patches, enc, self, hist, build>>

NextPatch == PatchifyOk \/ PatchifyRaises \/ DepatchifyOk

SpecPatch == InitPatch /\ [][NextPatch]_vars

\* True when patchify split the signal (a proper patch shape was applied).
IsSplit == inp.patch_shape # None /\ ~np_all_eq(inp.signal.shape, inp.patch_shape)

\* C2: a proper, exactly dividing patch_shape yields prod(S_i / p_i) patches of
\* shape patch_shape in row-major order of the patch index: patch k, with
\* (i_0..i_{d-1}) the row-major unravelling of k over the patch grid, holds at
\* offset (j_0..j_{d-1}) the signal entry at (i_a * p_a + j_a)_a.
C2_PatchOrder ==
    (pc = "patchified" /\ IsSplit) =>
        LET S == inp.signal.shape
            p == inp.patch_shape
            d == Len(S)
            grid == [a \in 1..d |-> S[a] \div p[a]]
            N == Prod(grid)
            sz == Prod(p)
        IN  /\ patches.shape = <<N>> \o p
            /\ Len(patches.data) = N * sz
            /\ \A k \in 0..(N - 1) : \A o \in 0..(sz - 1) :
                 LET i == Unravel(k, grid)
                     j == Unravel(o, p)
                     at == [a \in 1..d |-> i[a] * p[a] + j[a]]
                 IN  patches.data[k * sz + o + 1]
                        = inp.signal.data[Ravel(at, S) + 1]

\* C2 witness: a 2x2 signal split into its two columns, so that the patch order
\* differs from the order of the entries in memory.
C2_Witness ==
    /\ pc = "patchified" /\ IsSplit
    /\ inp.signal.shape = <<2, 2>> /\ inp.patch_shape = <<2, 1>>
    /\ inp.signal.data = <<0, 1, 0, 1>>
    /\ patches = [shape |-> <<2, 2, 1>>, data |-> <<0, 0, 1, 1>>]

\* C1 (as claimed): for every rank, depatchify(patchify(signal, patch_shape),
\* signal.shape) equals signal entry for entry.
C1_RoundTrip ==
    pc = "depatchified" => depatched = inp.signal

\* The round trip of signals of rank 1 and 2 (what the code does achieve).
RoundTripRank2 ==
    (pc = "depatchified" /\ Len(inp.signal.shape) <= 2) =>
        depatched = inp.signal

\* ------------------------------------------------------ exact arithmetic

RECURSIVE GCD(_, _)
GCD(a, b) == IF b = 0 THEN a ELSE GCD(b, a % b)

\* The rational n/d (n >= 0, d > 0) in lowest terms.
Rat(n, d) == LET g == GCD(n, d) IN <<n \div g, d \div g>>
RatAdd(x, y) == Rat(x[1] * y[2] + y[1] * x[2], x[2] * y[2])
RatMulInt(x, n) == Rat(x[1] * n, x[2])
RatDivInt(x, n) == Rat(x[1], x[2] * n)

RECURSIVE RatSum(_)
RatSum(s) == IF s = <<>> THEN <<0, 1>> ELSE RatAdd(Head(s), RatSum(Tail(s)))

RECURSIVE IntSum(_)
IntSum(s) == IF s = <<>> THEN 0 ELSE Head(s) + IntSum(Tail(s))

\* A floating point value: finite (an exact rational), nan or inf.
Fin(r) == [kind |-> "fin", val |-> r]
NaN == [kind |-> "nan", val |-> <<0, 1>>]
Inf == [kind |-> "inf", val |-> <<0, 1>>]

\* x / n for non-negative numbers under np.errstate(divide='ignore',
\* invalid='ignore'): 0/0 is nan, x/0 is inf for x > 0.
np_divide(x, n) ==
    IF n # 0 THEN Fin(Rat(x, n)) ELSE IF x = 0 THEN NaN ELSE Inf

\* np.sqrt, kept symbolic: the root of v (sqrt(nan) is nan, and the root is
\* one-to-one on the non-negative values).
np_sqrt(v) == [root_of |-> v]

\* ---------------------------------------------------- encoding.py: encode

\* tmp[np.isinf(tmp)] = 0
isinf_to_zero(v) == IF v.kind = "inf" THEN Fin(<<0, 1>>) ELSE v

\* patching_flag of encode ("1 if array is patched"); np.all(shape ==
\* np.array(None)) is False.
patching_flag(signal, patch_shape) ==
    (patch_shape # None) \/ np_all_eq(signal.shape, patch_shape)

\* Entries of a (in row-major order) whose leading index is i (0-based).
Row(a, i) ==
    LET w == Prod(Tail(a.shape))
    IN  [o \in 1..w |-> a.data[i * w + o]]

encode(signal, patch_shape) ==
    LET p == patchify(signal, patch_shape)
        flag == patching_flag(signal, patch_shape)
        d == Len(p.shape) - (IF flag THEN 1 ELSE 0)
        axes == [a \in 1..d |-> a]
    IN  IF Len(axes) = Len(p.shape)
        THEN LET norms == IntSum(p.data)
                 tmp == [k \in 1..Len(p.data) |->
                            isinf_to_zero(np_divide(p.data[k], norms))]
             IN  [states |-> [shape |-> p.shape,
                              data |-> [k \in 1..Len(tmp) |-> np_sqrt(tmp[k])]],
                  norms |-> [shape |-> <<>>, data |-> <<norms>>]]
        ELSE LET n0 == p.shape[1]
                 w == Prod(Tail(p.shape))
                 norms == [i \in 1..n0 |-> IntSum(Row(p, i - 1))]
                 tmp == [k \in 1..Len(p.data) |->
                            isinf_to_zero(
                                np_divide(p.data[k],
                                          norms[((k - 1) \div w) + 1]))]
             IN  [states |-> [shape |-> p.shape,
                              data |-> [k \in 1..Len(tmp) |-> np_sqrt(tmp[k])]],
                  norms |-> [shape |-> <<n0>>, data |-> norms]]

\* ----------------------------------------------------- the encode study

MaxEncCells == 4    \* a signal of the encode study has at most MaxEncCells entries
MaxVal == 2         \* its entries are 0..MaxVal

\* Signals of the encode study: at least two entries (one qubit).
EncSignals ==
    UNION {{[shape |-> s, data |-> dta] :
               dta \in [1..Prod(s) -> 0..MaxVal]} :
           s \in {t \in UNION {ShapesOf(r, MaxEncCells) : r \in 1..MaxRank} :
                    Prod(t) >= 2}}

InitEncode ==
    /\ pc = "start"
    /\ \E s \in EncSignals :
         \E p \in PatchShapesFor(s.shape) :
            inp = [signal |-> s, patch_shape |-> p]
    /\ patches = Unused /\ depatched = Unused
    /\ enc = Unused /\ self = Unused /\ hist = Unused /\ build = Unused

EncodeOk ==
    /\ pc = "start"
    /\ ~patchify_raises(inp.signal, inp.patch_shape)
    /\ enc' = encode(inp.signal, inp.patch_shape)
    /\ pc' = "encoded"
    /\ UNCHANGED <<inp, patches, depatched, self, hist, build>>

EncodeRaises ==
    /\ pc = "start"
    /\ patchify_raises(inp.signal, inp.patch_shape)
    /\ pc' = "ValueError"
    /\ UNCHANGED <<inp, patches, depatched, enc, self, hist, build>>

NextEncode == EncodeOk \/ EncodeRaises

SpecEncode == InitEncode /\ [][NextEncode]_vars

\* The patches the signal is to be encoded as: the patches of a proper patch
\* shape, else the whole signal as patch 0.
NumPatches ==
    IF IsSplit THEN Prod(inp.signal.shape) \div Prod(inp.patch_shape) ELSE 1
PatchEntries(k) ==
    IF IsSplit THEN Row(patchify(inp.signal, inp.patch_shape), k)
               ELSE inp.signal.data
\* The k-th amplitude vector and norm of the result, read patch by patch.
AmpEntries(k) ==
    LET w == Len(enc.states.data) \div NumPatches
    IN  [o \in 1..w |-> enc.states.data[k * w + o]]
Zero == Fin(<<0, 1>>)

\* C7: an all-zero patch (the whole signal with patch_shape omitted, or one
\* patch of a split signal) is encoded with norm 0 and amplitudes all 0: no
\* non-finite value reaches the output.
C7_ZeroPatch ==
    (pc = "encoded" /\ (inp.patch_shape = None \/ IsSplit)) =>
        \A k \in 0..(NumPatches - 1) :
            (\A o \in 1..Len(PatchEntries(k)) : PatchEntries(k)[o] = 0) =>
                /\ enc.norms.data[k + 1] = 0
                /\ \A o \in 1..Len(AmpEntries(k)) :
                      AmpEntries(k)[o] = np_sqrt(Zero)

\* What the code does with an all-zero patch: norm 0 and amplitudes all nan.
ZeroPatchIsNaN ==
    (pc = "encoded" /\ (inp.patch_shape = None \/ IsSplit)) =>
        \A k \in 0..(NumPatches - 1) :
            (\A o \in 1..Len(PatchEntries(k)) : PatchEntries(k)[o] = 0) =>
                /\ enc.norms.data[k + 1] = 0
                /\ \A o \in 1..Len(AmpEntries(k)) :
                      AmpEntries(k)[o] = np_sqrt(NaN)

\* Norm and amplitudes of patch k are those of the amplitude encoding.
EncodedPatch(k) ==
    LET e == PatchEntries(k)
        n == IntSum(e)
        a == AmpEntries(k)
    IN  /\ enc.norms.data[k + 1] = n
        /\ Len(a) = Len(e)
        /\ n # 0 =>
             /\ \A o \in 1..Len(e) : a[o] = np_sqrt(Fin(Rat(e[o], n)))
             /\ RatSum([o \in 1..Len(a) |-> a[o].root_of.val]) = <<1, 1>>

\* C8: for every valid patch_shape (omitted, the full shape, a proper divisor
\* shape) each patch's norm is the sum of its entries and its squared
\* amplitudes are entry/norm (summing to 1 when norm # 0); the full shape gives
\* the single amplitude vector and scalar norm of an omitted patch_shape.
\* Stated on the signals without a zero entry, where no division by zero
\* occurs (C7 is about those).
C8_Encode ==
    (pc = "encoded" /\ \A k \in 1..Len(inp.signal.data) : inp.signal.data[k] > 0)
    =>  /\ enc.norms.shape = (IF IsSplit THEN <<NumPatches>> ELSE <<>>)
        /\ \A k \in 0..(NumPatches - 1) : EncodedPatch(k)
        /\ ~IsSplit => enc = encode(inp.signal, None)

\* The same for an omitted or proper patch_shape (what the code does achieve).
EncodeOmittedOrSplit ==
    (pc = "encoded" /\ (inp.patch_shape = None \/ IsSplit)) =>
        /\ enc.norms.shape = (IF IsSplit THEN <<NumPatches>> ELSE <<>>)
        /\ \A k \in 0..(NumPatches - 1) : EncodedPatch(k)

\* ------------------------------------------------ processing.py: circuits

\* int(np.log2(n)) for n >= 1
RECURSIVE ilog2(_)
ilog2(n) == IF n <= 1 THEN 0 ELSE 1 + ilog2(n \div 2)

RECURSIVE Pow2(_)
Pow2(n) == IF n <= 0 THEN 1 ELSE 2 * Pow2(n - 1)

\* get_numQubits(state) = int(np.log2(len(state))): len of an array is the
\* length of its FIRST axis.
get_numQubits(state) == ilog2(state.shape[1])

\* Checks made by the circuit library inside the calls of the builders.
\* ClassicalRegister(size): a negative size is refused.
register_ok(size) == size >= 0
\* circuit.append(gate, qargs=range(lo, hi)): the gate's qubit count must be
\* the number of qubits given.
append_ok(gate_qubits, lo, hi) ==
    (IF hi > lo THEN hi - lo ELSE 0) = gate_qubits
\* qc.h(q[lo:hi]): a gate is refused an empty argument.
h_ok(Hadamard, lo, hi) == Hadamard => hi > lo
\* qc.measure(qubits, clbits): equally many, or one qubit into each clbit.
measure_ok(m) ==
    LET qlen == m[2] - m[1]
        clen == m[4] - m[3]
    IN  qlen = clen \/ (qlen = 1 /\ clen >= 1)

Raised(e) == [raised |-> e]

\* MD_QFT(size, circuit, nSub, d): the qubit ranges the d transforms go to.
MD_QFT(size, nSub, d) ==
    [i \in 1..d |-> <<(i - 1) * nSub, (i - 1) * nSub + size>>]

QuDownsample(state, nTilde, Hadamard) ==
    LET nEnc == get_numQubits(state)
        nDown == nEnc - nTilde
    IN  IF ~register_ok(nDown) THEN Raised("CircuitError")
        ELSE IF ~h_ok(Hadamard, 0, nDown) THEN Raised("CircuitError")
        ELSE [raised |-> "", num_qubits |-> nEnc, num_clbits |-> nDown,
              n0 |-> nEnc, hadamard |-> Hadamard,
              forward |-> <<<<0, nEnc>>>>,
              inverse |-> <<<<0, nDown>>>>,
              measure |-> <<<<0, nDown, 0, nDown>>>>]

QuDownsample_2D(state, nTilde, Hadamard) ==
    LET nEnc == get_numQubits(state)
        nDown == nEnc - 2 * nTilde
        fwd == <<<<0, nEnc \div 2>>, <<nEnc \div 2, nEnc>>>>
        inv == <<<<0, nDown \div 2>>,
                 <<(nDown \div 2) + nTilde, nEnc - nTilde>>>>
        meas == <<<<0, nDown \div 2, 0, nDown \div 2>>,
                  <<(nDown \div 2) + nTilde, nEnc - nTilde,
                    nDown \div 2, nDown>>>>
    IN  IF ~register_ok(nDown) THEN Raised("CircuitError")
        ELSE IF \E i \in 1..2 : ~append_ok(nEnc \div 2, fwd[i][1], fwd[i][2])
        THEN Raised("CircuitError")
        ELSE IF \E i \in 1..2 : ~append_ok(nDown \div 2, inv[i][1], inv[i][2])
        THEN Raised("CircuitError")
        ELSE IF \E i \in 1..2 : ~h_ok(Hadamard, meas[i][1], meas[i][2])
        THEN Raised("CircuitError")
        ELSE IF \E i \in 1..2 : ~measure_ok(meas[i])
        THEN Raised("CircuitError")
        ELSE [raised |-> "", num_qubits |-> nEnc, num_clbits |-> nDown,
              n0 |-> nEnc \div 2, hadamard |-> Hadamard,
              forward |-> fwd, inverse |-> inv, measure |-> meas]

QuDownsample_MD(state, d, nTilde, Hadamard) ==
    LET nEnc == get_numQubits(state)
        nDown == nEnc - d * nTilde
        n0 == nEnc \div d
        fwd == MD_QFT(nEnc \div d, n0, d)
        inv == MD_QFT(nDown \div d, n0, d)
        meas == [i \in 1..d |->
                    <<(i - 1) * n0, (i - 1) * n0 + (nDown \div d),
                      ((i - 1) * nDown) \div d, (i * nDown) \div d>>]
    IN  IF ~register_ok(nDown) THEN Raised("CircuitError")
        ELSE IF \E i \in 1..d : ~append_ok(nEnc \div d, fwd[i][1], fwd[i][2])
        THEN Raised("CircuitError")
        ELSE IF \E i \in 1..d : ~append_ok(nDown \div d, inv[i][1], inv[i][2])
        THEN Raised("CircuitError")
        ELSE IF \E i \in 1..d : ~h_ok(Hadamard, meas[i][1], meas[i][2])
        THEN Raised("CircuitError")
        ELSE IF \E i \in 1..d : ~measure_ok(meas[i])
        THEN Raised("CircuitError")
        ELSE [raised |-> "", num_qubits |-> nEnc, num_clbits |-> nDown,
              n0 |-> n0, hadamard |-> Hadamard,
              forward |-> fwd, inverse |-> inv, measure |-> meas]

\* circuit_library[task](state, *params)
circuit_type(task, state, params) ==
    CASE task = "downsample_1D" -> QuDownsample(state, params[1], TRUE)
      [] task = "downsample_2D" -> QuDownsample_2D(state, params[1], TRUE)
      [] task = "downsample_MD" ->
            QuDownsample_MD(state, params[1], params[2], TRUE)

\* ------------------------------------------------------ the build study

MaxQubits == 4      \* state vectors have 2^1 .. 2^MaxQubits entries
MaxTilde == 2       \* nTilde is 0..MaxTilde

\* A state vector of n qubits, by its shape (the builders read only len).
StateOfQubits(n) == [shape |-> <<Pow2(n)>>]

BuildInputs ==
    {[task |-> "downsample_1D", nEnc |-> n, d |-> 1, nTilde |-> t, Hadamard |-> h] :
        n \in 1..MaxQubits, t \in 0..MaxTilde, h \in BOOLEAN}
    \cup
    {[task |-> "downsample_2D", nEnc |-> n, d |-> 2, nTilde |-> t, Hadamard |-> h] :
        n \in 1..MaxQubits, t \in 0..MaxTilde, h \in BOOLEAN}
    \cup
    UNION {{[task |-> "downsample_MD", nEnc |-> n, d |-> dd, nTilde |-> t,
             Hadamard |-> h] :
               n \in 1..MaxQubits, t \in 0..MaxTilde, h \in BOOLEAN} :
           dd \in 1..MaxRank}

Builder(i) ==
    CASE i.task = "downsample_1D" ->
            QuDownsample(StateOfQubits(i.nEnc), i.nTilde, i.Hadamard)
      [] i.task = "downsample_2D" ->
            QuDownsample_2D(StateOfQubits(i.nEnc), i.nTilde, i.Hadamard)
      [] i.task = "downsample_MD" ->
            QuDownsample_MD(StateOfQubits(i.nEnc), i.d, i.nTilde, i.Hadamard)

InitBuild ==
    /\ pc = "start"
    /\ inp \in BuildInputs
    /\ patches = Unused /\ depatched = Unused
    /\ enc = Unused /\ self = Unused /\ hist = Unused /\ build = Unused

BuildReturns ==
    /\ pc = "start"
    /\ Builder(inp).raised = ""
    /\ build' = Builder(inp)
    /\ pc' = "built"
    /\ UNCHANGED <<inp, patches, depatched, enc, self, hist>>

BuildRaises ==
    /\ pc = "start"
    /\ Builder(inp).raised # ""
    /\ build' = Builder(inp)
    /\ pc' = "raised"
    /\ UNCHANGED <<inp, patches, depatched, enc, self, hist>>

NextBuild == BuildReturns \/ BuildRaises

SpecBuild == InitBuild /\ [][NextBuild]_vars

\* C9: building a down-sampling transform (2D or MD) fails, and returns no
\* transform description, whenever nDown = nEnc - d*nTilde <= 0 or d does not
\* divide nEnc.  (Any error is accepted here as the failure.)
C9_InvalidConfigFails ==
    (/\ pc \in {"built", "raised"}
     /\ inp.task \in {"downsample_2D", "downsample_MD"}
     /\ (inp.nEnc - inp.d * inp.nTilde <= 0 \/ inp.nEnc % inp.d # 0))
    => (pc = "raised" /\ build.raised # "")

\* What the code does: the subregister width of a returned description is the
\* floor of nEnc/d, whether or not d divides nEnc.
WidthIsFloor ==
    (pc = "built" /\ inp.task = "downsample_MD") =>
        build.n0 = inp.nEnc \div inp.d

\* ------------------------------------------- postprocessing.py: simulation

\* Number of occurrences of v in the sequence res (Counter(res)[v]).
Count(res, v) == Cardinality({j \in 1..Len(res) : res[j] = v})

\* Divisor used by get_freqs.
get_freqs_divisor_outcomes(res, n_outcomes) == Pow2(n_outcomes)
get_freqs_divisor(res, n_outcomes) == Len(res)

\* get_freqs(res, n_outcomes): occurrence frequencies of the outcomes
\* 0 .. 2^n_outcomes - 1 in the raw measurements res.
get_freqs(res, n_outcomes) ==
    [k \in 1..Pow2(n_outcomes) |->
        Rat(Count(res, k - 1), get_freqs_divisor(res, n_outcomes))]

\* run_circ(qc, S): the simulator's memory mem holds S outcomes below
\* 2^qc.num_clbits.
run_circ(qc, mem) == get_freqs(mem, qc.num_clbits)

\* patch_run_circ(qcs, S): pool.map returns the results in the order of qcs.
patch_run_circ(qcs, mems) == [i \in 1..Len(qcs) |-> run_circ(qcs[i], mems[i])]

\* Scalar operations on a frequency vector.
VecMulInt(f, n) == [k \in 1..Len(f) |-> RatMulInt(f[k], n)]
VecDivInt(f, n) == [k \in 1..Len(f) |-> RatDivInt(f[k], n)]
VecAdd(f, g) == [k \in 1..Len(f) |-> RatAdd(f[k], g[k])]

\* r * 2^e for any integer e
Scale(r, e) == IF e >= 0 THEN RatMulInt(r, Pow2(e)) ELSE RatDivInt(r, Pow2(-e))

\* vec2sig(freqs, d, norm) for a scalar norm; d = 1 at every call that is
\* reached, where int(np.power(len(freqs), 1.0/d)) is len(freqs).
vec2sig(freqs, d, norm) ==
    LET side == CHOOSE r \in 1..Len(freqs) :
                    /\ Prod([i \in 1..d |-> r]) <= Len(freqs)
                    /\ \A q \in 1..Len(freqs) :
                          Prod([i \in 1..d |-> q]) <= Len(freqs) => q <= r
    IN  [shape |-> [i \in 1..d |-> side],
         data |-> [k \in 1..Len(freqs) |-> RatMulInt(freqs[k], norm)]]

\* freqs * norm for two arrays of one axis, by numpy's broadcasting: equal
\* lengths, or one of them of length 1; any other pair is refused.
np_multiply_raises(f, n) == ~(Len(f) = Len(n) \/ Len(f) = 1 \/ Len(n) = 1)
np_multiply(f, n) ==
    LET L == IF Len(f) >= Len(n) THEN Len(f) ELSE Len(n)
    IN  [k \in 1..L |-> RatMulInt(f[IF Len(f) = 1 THEN 1 ELSE k],
                                  n[IF Len(n) = 1 THEN 1 ELSE k])]

\* vec2sig(freqs, d, norm) as patch_vec2sig calls it: norm is the array it
\* was given, whole.  The reshape to d axes of int(len(freqs)^(1/d)) entries
\* is refused unless it keeps the number of entries.
vec2sig_of_patch(freqs, d, norm) ==
    IF np_multiply_raises(freqs, norm) THEN [raised |-> "ValueError", data |-> <<>>]
    ELSE LET out_values == np_multiply(freqs, norm)
             side == CHOOSE r \in 1..Len(freqs) :
                        /\ Prod([i \in 1..d |-> r]) <= Len(freqs)
                        /\ \A q \in 1..Len(freqs) :
                              Prod([i \in 1..d |-> q]) <= Len(freqs) => q <= r
         IN  IF Prod([i \in 1..d |-> side]) # Len(out_values)
             THEN [raised |-> "ValueError", data |-> <<>>]
             ELSE [raised |-> "", data |-> out_values]

\* patch_vec2sig(patch_freqs, d, norm): pool.map returns the results in the
\* order of patch_freqs, whatever order the workers finish in.
patch_vec2sig(patch_freqs, d, norm) ==
    LET out_patches == [k \in 1..Len(patch_freqs) |->
                            vec2sig_of_patch(patch_freqs[k], d, norm)]
    IN  [raised |-> IF \E k \in 1..Len(patch_freqs) : out_patches[k].raised # ""
                    THEN "ValueError" ELSE "",
         out_sig |-> [k \in 1..Len(patch_freqs) |-> out_patches[k].data]]

\* patch_vec2sig(patch_freqs, d, norm, num_workers=4): its parameter names,
\* and the keywords reconstruct calls it with.
patch_vec2sig_params == {"patch_freqs", "d", "norm", "num_workers"}
reconstruct_patch_kwargs == {"d", "patch_freqs", "norms"}

\* ------------------------------------------ resample_sim.py: Resampling_Sim

\* qc.initialize(state): the squared amplitudes must be finite and sum to 1.
\* (What the circuit library does with a state of more than one axis is not
\* decided by the repository; a normalised state of any rank is accepted.)
initialize_ok(state) ==
    /\ \A k \in 1..Len(state.data) : state.data[k].root_of.kind = "fin"
    /\ RatSum([k \in 1..Len(state.data) |-> state.data[k].root_of.val])
          = <<1, 1>>

\* patches[i] for a stack of patches (i is 0-based)
Sub(a, i) == [shape |-> Tail(a.shape), data |-> Row(a, i)]

\* circuit_builder(states, circuit_type, params, patches)
circuit_builder(states, task, params, isPatched) ==
    IF isPatched
    THEN [i \in 1..states.shape[1] |->
              circuit_type(task, Sub(states, i - 1), params)]
    ELSE circuit_type(task, states, params)

\* The states that circuit_builder hands to a builder.
BuilderStates(states, isPatched) ==
    IF isPatched THEN {Sub(states, i - 1) : i \in 1..states.shape[1]}
                 ELSE {states}

\* Resampling_Sim.__init__ completes (nothing it calls raises).
init_ok(signal, task, params, patch_shape) ==
    /\ ~patchify_raises(signal, patch_shape)
    /\ LET e == encode(signal, patch_shape)
           isPatched == patch_shape # None /\ patch_shape # e.states.shape
       IN  \A st \in BuilderStates(e.states, isPatched) :
              /\ initialize_ok(st)
              /\ circuit_type(task, st, params).raised = ""

\* The attributes set by Resampling_Sim.__init__.
Resampling_Sim(signal, task, params, patch_shape) ==
    LET e == encode(signal, patch_shape)
        isPatched == patch_shape # None /\ patch_shape # e.states.shape
    IN  [_input_size |-> get_numQubits(signal),
         _states |-> e.states,
         _norms |-> e.norms,
         _patch_shape |-> patch_shape,
         _task |-> task,
         _isPatched |-> isPatched,
         _circuits |-> circuit_builder(e.states, task, params, isPatched),
         _logbook |-> [task |-> task, patches |-> isPatched]]

\* The logbook after a later call of run on an unpatched object, in a wrong
\* (unweighted) variant and as the code has it.
combine_unweighted(old, S_old, new, shots) == VecDivInt(VecAdd(old, new), 2)
combine(old, S_old, new, shots) ==
    VecDivInt(VecAdd(VecMulInt(old, S_old), VecMulInt(new, shots)),
              S_old + shots)

\* run, with the shots committed before the simulation is called.
run_commit_first(obj, shots, sim) ==
    LET lb == obj._logbook
    IN  [obj EXCEPT !._logbook =
            IF "shots" \in DOMAIN lb
            THEN [lb EXCEPT !.shots = @ + shots]
            ELSE [shots |-> shots] @@ lb]

\* Resampling_Sim.run(shots): the object after the call.  sim is what the
\* simulation does: it raises (sim.failed), or produces the memory sim.mem of
\* the circuit (unpatched) or of each circuit in order (patched).
run(obj, shots, sim) ==
    LET lb == obj._logbook
    IN  IF sim.failed THEN obj
        ELSE IF obj._isPatched /\ "shots" \in DOMAIN lb
        THEN LET res == patch_run_circ(obj._circuits, sim.mem)
                 new == [i \in 1..Len(res) |-> VecMulInt(res[i], shots)]
                 old == [i \in 1..Len(lb.frequencies) |->
                            VecMulInt(lb.frequencies[i], lb.shots)]
                 n == IF Len(new) <= Len(old) THEN Len(new) ELSE Len(old)
             IN  [obj EXCEPT !._logbook =
                    [lb EXCEPT
                       !.frequencies =
                           [i \in 1..n |->
                               VecDivInt(VecAdd(new[i], old[i]),
                                         lb.shots + shots)],
                       !.shots = @ + shots]]
        ELSE IF ~obj._isPatched /\ "shots" \in DOMAIN lb
        THEN LET new == run_circ(obj._circuits, sim.mem)
                 old == lb.frequencies
             IN  [obj EXCEPT !._logbook =
                    [lb EXCEPT
                       !.frequencies = combine(old, lb.shots, new, shots),
                       !.shots = @ + shots]]
        ELSE IF obj._isPatched
        THEN LET new == patch_run_circ(obj._circuits, sim.mem)
             IN  [obj EXCEPT !._logbook =
                    [frequencies |-> new, shots |-> shots] @@ lb]
        ELSE LET new == run_circ(obj._circuits, sim.mem)
             IN  [obj EXCEPT !._logbook =
                    [frequencies |-> new, shots |-> shots] @@ lb]

\* The exception reconstruct raises ("" when it completes).
reconstruct_raises(obj) ==
    IF "frequencies" \notin DOMAIN obj._logbook THEN "Exception"
    ELSE IF obj._isPatched
            /\ ~(reconstruct_patch_kwargs \subseteq patch_vec2sig_params)
    THEN "TypeError"
    ELSE ""

\* Resampling_Sim.reconstruct() on an unpatched object with frequencies.
reconstruct(obj) ==
    LET freqs == obj._logbook.frequencies
        d == 1                              \* len(freqs.shape)
        out_sig == vec2sig(freqs, d, obj._norms.data[1])
        shape == out_sig.shape
        sig == depatchify(out_sig, shape)
        output_size == get_numQubits(sig)
        e == output_size - obj._input_size     \* norm_factor = 2**e
    IN  [_sig |-> [shape |-> sig.shape,
                   data |-> [k \in 1..Len(sig.data) |-> Scale(sig.data[k], e)]],
         _output_size |-> output_size]
        @@ [a \in DOMAIN obj \ {"_sig", "_output_size"} |-> obj[a]]

\* The exception the output property raises ("" when it returns _sig).
output_never_raises(obj) == ""
output_raises(obj) ==
    IF "_sig" \notin DOMAIN obj THEN "AttributeError" ELSE ""

\* --------------------------------------------------- the pipeline study

MaxShots == 2       \* run is called with 1..MaxShots shots
MaxRuns == 2        \* at most MaxRuns calls of run complete
MaxTotalShots == 3  \* with at most MaxTotalShots shots in all

\* Signals of the pipeline study: axes of length 2 or 4, at most 4 entries,
\* all entries 1 or the ramp 1, 2, 3, ...
PipeShapes == {<<2>>, <<4>>, <<2, 2>>}
PipeSignals ==
    UNION {{[shape |-> s, data |-> [k \in 1..Prod(s) |-> 1]],
            [shape |-> s, data |-> [k \in 1..Prod(s) |-> k]]} : s \in PipeShapes}

PipeTasks ==
    {[task |-> "downsample_1D", params |-> <<t>>] : t \in 0..MaxTilde}
    \cup {[task |-> "downsample_MD", params |-> <<dd, t>>] :
             dd \in 1..2, t \in 0..MaxTilde}

\* The constructor calls that complete.
PipeInputs ==
    {i \in UNION {UNION {{[signal |-> s, patch_shape |-> p,
                           task |-> t.task, params |-> t.params] :
                              t \in PipeTasks} :
                         p \in PatchShapesFor(s.shape)} : s \in PipeSignals} :
        init_ok(i.signal, i.task, i.params, i.patch_shape)}

\* Memories a simulation of qc with S shots can produce: S outcomes below
\* 2^num_clbits, listed in non-decreasing order (get_freqs counts the
\* outcomes and does not read their order).
Memories(qc, S) ==
    {m \in [1..S -> 0..(Pow2(qc.num_clbits) - 1)] :
        \A j \in 1..(S - 1) : m[j] <= m[j + 1]}
SimResults(obj, S) ==
    IF obj._isPatched
    THEN {m \in [1..Len(obj._circuits) ->
                    UNION {Memories(obj._circuits[i], S) :
                              i \in 1..Len(obj._circuits)}] :
             \A i \in 1..Len(obj._circuits) :
                m[i] \in Memories(obj._circuits[i], S)}
    ELSE Memories(obj._circuits, S)

\* Sum over the completed runs of F_i * s_i, as exact vectors.
ZeroLike(f) == [k \in 1..Len(f) |-> <<0, 1>>]
Weighted(obj, old, F, shots) ==
    IF obj._isPatched
    THEN [i \in 1..Len(F) |->
            VecAdd(IF old = <<>> THEN ZeroLike(F[i]) ELSE old[i],
                   VecMulInt(F[i], shots))]
    ELSE VecAdd(IF old = <<>> THEN ZeroLike(F) ELSE old, VecMulInt(F, shots))

InitPipe ==
    /\ pc = "constructed"
    /\ inp \in PipeInputs
    /\ self = Resampling_Sim(inp.signal, inp.task, inp.params, inp.patch_shape)
    /\ hist = [runs |-> 0, shots |-> 0, weighted |-> <<>>,
               reconstructed |-> FALSE,
               last |-> [op |-> "__init__", raised |-> ""]]
    /\ patches = Unused /\ depatched = Unused
    /\ enc = Unused /\ build = Unused

\* run(shots) with a simulation that completes
Run ==
    /\ hist.runs < MaxRuns
    /\ \E shots \in 1..MaxShots : \E mem \in SimResults(self, shots) :
         /\ hist.shots + shots <= MaxTotalShots
         /\ self' = run(self, shots, [failed |-> FALSE, mem |-> mem])
         /\ hist' = [hist EXCEPT
                !.runs = @ + 1,
                !.shots = @ + shots,
                !.weighted =
                    Weighted(self, @,
                             IF self._isPatched
                             THEN patch_run_circ(self._circuits, mem)
                             ELSE run_circ(self._circuits, mem),
                             shots),
                !.last = [op |-> "run", raised |-> ""]]
    /\ UNCHANGED <<pc, inp, patches, depatched, enc, build>>

\* run(shots) with a simulation that raises
RunFails ==
    /\ \E shots \in 1..MaxShots :
         self' = run(self, shots, [failed |-> TRUE, mem |-> <<>>])
    /\ hist' = [hist EXCEPT !.last = [op |-> "run", raised |-> "SimulationError"]]
    /\ UNCHANGED <<pc, inp, patches, depatched, enc, build>>

\* reconstruct()
Reconstruct ==
    /\ IF reconstruct_raises(self) # ""
       THEN /\ self' = self
            /\ hist' = [hist EXCEPT
                   !.last = [op |-> "reconstruct",
                             raised |-> reconstruct_raises(self)]]
       ELSE /\ self' = reconstruct(self)
            /\ hist' = [hist EXCEPT
                   !.reconstructed = TRUE,
                   !.last = [op |-> "reconstruct", raised |-> ""]]
    /\ UNCHANGED <<pc, inp, patches, depatched, enc, build>>

\* reading the output property
Output ==
    /\ hist' = [hist EXCEPT
           !.last = [op |-> "output", raised |-> output_raises(self)]]
    /\ UNCHANGED <<pc, inp, patches, depatched, enc, self, build>>

NextPipe == Run \/ RunFails \/ Reconstruct \/ Output

SpecPipe == InitPipe /\ [][NextPipe]_vars

\* The stored frequency vectors: one per patch, or the single one.
StoredVectors ==
    IF "frequencies" \notin DOMAIN self._logbook THEN <<>>
    ELSE IF self._isPatched THEN self._logbook.frequencies
    ELSE <<self._logbook.frequencies>>
WeightedVectors ==
    IF self._isPatched THEN hist.weighted ELSE <<hist.weighted>>

\* C3: after runs with shots s_1..s_k and results F_1..F_k the logbook holds
\* shots = s_1 + ... + s_k and frequencies = (F_1*s_1 + ... + F_k*s_k) /
\* (s_1 + ... + s_k), for the single vector and for each patch's vector.
C3_WeightedAverage ==
    hist.runs >= 1 =>
        /\ self._logbook.shots = hist.shots
        /\ Len(StoredVectors) = Len(WeightedVectors)
        /\ \A i \in 1..Len(StoredVectors) :
              StoredVectors[i] = VecDivInt(WeightedVectors[i], hist.shots)

\* C3 witness: a patched pipeline after two runs of different shot counts
\* whose second result differs from the first.
C3_Witness ==
    /\ hist.runs = 2 /\ self._isPatched
    /\ self._logbook.shots = 3
    /\ \E i \in 1..Len(StoredVectors) : \E k \in 1..Len(StoredVectors[i]) :
          StoredVectors[i][k] = <<1, 3>>

\* C4: every stored frequency vector sums to exactly 1.
C4_SumsToOne ==
    \A i \in 1..Len(StoredVectors) : RatSum(StoredVectors[i]) = <<1, 1>>

\* C4 witness: an accumulated vector with two unequal non-zero entries.
C4_Witness ==
    /\ hist.runs = 2
    /\ \E i \in 1..Len(StoredVectors) :
          /\ Len(StoredVectors[i]) >= 2
          /\ StoredVectors[i][1] = <<1, 3>>
          /\ StoredVectors[i][2] = <<2, 3>>

\* C5: reconstruct raises, and sets no output signal, when no run has
\* completed; reading output raises when no reconstruct has completed; an
\* output is returned only after a run and a reconstruct have completed.
C5_Order ==
    /\ (hist.last.op = "reconstruct" /\ hist.runs = 0) =>
          (hist.last.raised # "" /\ "_sig" \notin DOMAIN self)
    /\ (hist.last.op = "output" /\ ~hist.reconstructed) =>
          hist.last.raised # ""
    /\ (hist.last.op = "output" /\ hist.last.raised = "") =>
          (hist.runs >= 1 /\ hist.reconstructed)
    /\ "_sig" \in DOMAIN self => (hist.runs >= 1 /\ hist.reconstructed)

\* C5 witness: output read before any reconstruct, although a run completed.
C5_Witness ==
    /\ hist.last.op = "output" /\ hist.last.raised = "AttributeError"
    /\ hist.runs >= 1 /\ ~hist.reconstructed

\* C6: a run whose simulation call fails leaves the logbook as it was, and no
\* step leaves the logbook with frequencies but no shots, or the reverse.
C6_FailedRunKeepsLogbook ==
    [][/\ (hist'.last.op = "run" /\ hist'.last.raised # "")
            => self'._logbook = self._logbook
       /\ ("shots" \in DOMAIN self'._logbook)
            <=> ("frequencies" \in DOMAIN self'._logbook)]_vars

\* C6 witness: a failed run after a completed one (a later call fails).
C6_Witness ==
    /\ hist.last.op = "run" /\ hist.last.raised # ""
    /\ hist.runs >= 1 /\ self._isPatched
    /\ "shots" \in DOMAIN self._logbook

RenormalizationRank1 ==
    (/\ hist.last.op = "reconstruct" /\ hist.last.raised = ""
     /\ Len(inp.signal.shape) = 1) =>
        LET freqs == self._logbook.frequencies
            inputQubits == ilog2(Prod(self._states.shape))
            outputQubits == ilog2(Len(freqs))
        IN  self._sig.data =
                [k \in 1..Len(freqs) |->
                    Scale(RatMulInt(freqs[k], self._norms.data[1]),
                          outputQubits - inputQubits)]

\* C11: in a patched pipeline with at least one completed run, reconstruct
\* completes, and the k-th reconstructed patch, as patch_vec2sig returns it
\* before reassembly and renormalization, is the k-th accumulated frequency
\* vector multiplied by the norm of patch k alone.
C11_PatchedReconstruct ==
    (/\ self._isPatched
     /\ hist.runs >= 1
     /\ hist.last.op = "reconstruct") =>
        /\ hist.last.raised = ""
        /\ LET freqs == self._logbook.frequencies
               out == patch_vec2sig(freqs, 1, self._norms.data)
           IN  /\ out.raised = ""
               /\ \A k \in 1..Len(freqs) :
                     out.out_sig[k] =
                        [j \in 1..Len(freqs[k]) |->
                            RatMulInt(freqs[k][j], self._norms.data[k])]

\* Apart from the refused call, patch_vec2sig hands every patch the whole
\* array of norms: the product is the claimed one only where all the norms
\* of the patches are equal and each patch has as many outcomes as there are
\* patches (or a single norm entry is broadcast).
C11_PerPatchNorm ==
    (/\ self._isPatched
     /\ hist.runs >= 1
     /\ hist.last.op = "reconstruct") =>
        LET freqs == self._logbook.frequencies
            out == patch_vec2sig(freqs, 1, self._norms.data)
        IN  /\ out.raised = ""
            /\ \A k \in 1..Len(freqs) :
                  out.out_sig[k] =
                     [j \in 1..Len(freqs[k]) |->
                         RatMulInt(freqs[k][j], self._norms.data[k])]

\* In a patched pipeline every call of reconstruct after a run is refused.
PatchedReconstructRaises ==
    (/\ self._isPatched
     /\ hist.runs >= 1
     /\ hist.last.op = "reconstruct") => hist.last.raised = "TypeError"

\* ------------------------------------------- processing.py: QUpsample_MD

MaxUpQubits == 6    \* the up-sampled state vectors have 2^1 .. 2^MaxUpQubits entries

\* q[k] on a register of size qubits: a negative k counts from the end, and
\* a k outside -size .. size-1 is refused.
q_index_raises(size, k) == k < -size \/ k >= size
q_index(size, k) == IF k < 0 THEN size + k ELSE k

\* padd_Idx = i//nTilde + 1 (the loop runs only where nTilde >= 1)
padd_Idx_zero_based(i, nTilde) == i \div nTilde
padd_Idx(i, nTilde) == (i \div nTilde) + 1

\* len(range(n0*(d-padd_Idx))): the swaps of pass i of the outer loop
inner_range(n0, d, i, nTilde) ==
    LET n == n0 * (d - padd_Idx(i, nTilde)) IN IF n > 0 THEN n ELSE 0

\* qc.swap(q[a], q[b]) on the contents of the register (positions from 0)
swap(layout, a, b) ==
    [p \in 1..Len(layout) |->
        IF p = a + 1 THEN layout[b + 1]
        ELSE IF p = b + 1 THEN layout[a + 1]
        ELSE layout[p]]

\* QUpsample_MD up to the first barrier: the sizes, the registers, the
\* initialization of q[0:nEnc], the Hadamards and the forward MD_QFT.
\* layout[p+1] is the qubit whose content sits at position p: 0..nEnc-1 are
\* the encoding qubits, nEnc..nUp-1 the padding.
QUpsample_MD_begin(state, d, nTilde) ==
    LET nEnc == get_numQubits(state)
        nUp == nEnc + d * nTilde
        n0 == nEnc \div d
        n1 == nUp \div d
        fwd == MD_QFT(nEnc \div d, n0, d)
    IN  IF ~register_ok(nUp) THEN Raised("CircuitError")
        ELSE IF ~h_ok(TRUE, 0, nUp) THEN Raised("CircuitError")
        ELSE IF \E i \in 1..d : ~append_ok(nEnc \div d, fwd[i][1], fwd[i][2])
        THEN Raised("CircuitError")
        ELSE [raised |-> "", nEnc |-> nEnc, nUp |-> nUp, n0 |-> n0, n1 |-> n1,
              d |-> d, nTilde |-> nTilde, forward |-> fwd,
              layout |-> [p \in 1..nUp |-> p - 1],
              i |-> 0, j |-> 0, swaps |-> 0, last_swap |-> <<>>]

\* The swap loops have an iteration left at (b.i, b.j).
swaps_left(b) ==
    /\ b.i < (b.d - 1) * b.nTilde
    /\ b.j < inner_range(b.n0, b.d, b.i, b.nTilde)

\* One pass of the inner loop body: qc.swap(q[nEnc+i-j], q[nEnc+i-j-1]),
\* then on to the next j, or to the next i with j = 0.
QUpsample_MD_swap(b) ==
    LET a1 == b.nEnc + b.i - b.j
        a2 == b.nEnc + b.i - b.j - 1
        last == b.j + 1 >= inner_range(b.n0, b.d, b.i, b.nTilde)
    IN  IF q_index_raises(b.nUp, a1) \/ q_index_raises(b.nUp, a2)
        THEN [b EXCEPT !.raised = "IndexError", !.last_swap = <<a1, a2>>]
        ELSE IF q_index(b.nUp, a1) = q_index(b.nUp, a2)
        THEN [b EXCEPT !.raised = "CircuitError", !.last_swap = <<a1, a2>>]
        ELSE [b EXCEPT
                !.layout = swap(b.layout, q_index(b.nUp, a1), q_index(b.nUp, a2)),
                !.i = IF last THEN b.i + 1 ELSE b.i,
                !.j = IF last THEN 0 ELSE b.j + 1,
                !.swaps = b.swaps + 1,
                !.last_swap = <<a1, a2>>]

\* QUpsample_MD after the second barrier: the inverse MD_QFT on d
\* subregisters of n1 qubits, the Hadamards and the measurement of all qubits.
QUpsample_MD_end(b) ==
    LET inv == MD_QFT(b.nUp \div b.d, b.n1, b.d)
    IN  IF \E i \in 1..b.d : ~append_ok(b.nUp \div b.d, inv[i][1], inv[i][2])
        THEN [b EXCEPT !.raised = "CircuitError"]
        ELSE IF \E i \in 1..b.d : inv[i][2] > b.nUp
        THEN [b EXCEPT !.raised = "CircuitError"]
        ELSE IF ~measure_ok(<<0, b.nUp, 0, b.nUp>>)
        THEN [b EXCEPT !.raised = "CircuitError"]
        ELSE [raised |-> "", num_qubits |-> b.nUp, num_clbits |-> b.nUp,
              inverse |-> inv, measure |-> <<<<0, b.nUp, 0, b.nUp>>>>]
             @@ b

\* ----------------------------------------------------- the up-sampling study

UpInputs ==
    [nEnc : 1..MaxUpQubits, d : 1..MaxRank, nTilde : 0..MaxTilde]

InitUpsample ==
    /\ pc = "start"
    /\ inp \in UpInputs
    /\ patches = Unused /\ depatched = Unused
    /\ enc = Unused /\ self = Unused /\ hist = Unused /\ build = Unused

UpsampleBegin ==
    /\ pc = "start"
    /\ build' = QUpsample_MD_begin(StateOfQubits(inp.nEnc), inp.d, inp.nTilde)
    /\ pc' = IF build'.raised # "" THEN "raised" ELSE "swapping"
    /\ UNCHANGED <<inp, patches, depatched, enc, self, hist>>

UpsampleSwap ==
    /\ pc = "swapping"
    /\ swaps_left(build)
    /\ build' = QUpsample_MD_swap(build)
    /\ pc' = IF build'.raised # "" THEN "raised" ELSE "swapping"
    /\ UNCHANGED <<inp, patches, depatched, enc, self, hist>>

UpsampleEnd ==
    /\ pc = "swapping"
    /\ ~swaps_left(build)
    /\ build' = QUpsample_MD_end(build)
    /\ pc' = IF build'.raised # "" THEN "raised" ELSE "built"
    /\ UNCHANGED <<inp, patches, depatched, enc, self, hist>>

NextUpsample == UpsampleBegin \/ UpsampleSwap \/ UpsampleEnd

SpecUpsample == InitUpsample /\ [][NextUpsample]_vars

\* The register is d subregisters of n0 + nTilde positions, subregister s
\* holding encoding qubits s*n0 .. s*n0+n0-1 in that order and then padding.
EqualSubregisters(b) ==
    LET w == b.n0 + b.nTilde
    IN  \A s \in 0..(b.d - 1) : \A r \in 0..(w - 1) :
            LET c == b.layout[s * w + r + 1]
            IN  IF r < b.n0 THEN c = s * b.n0 + r ELSE c >= b.nEnc

\* C12: for d >= 1, n0 >= 1 and nTilde >= 0, on a state of d*n0 qubits, every
\* swap QUpsample_MD issues acts on two indices inside the register of
\* d*(n0+nTilde) qubits, nothing is refused, and once the swaps are done the
\* register is d consecutive subregisters of n0+nTilde qubits: subregister i
\* holds the n0 encoding qubits of original subregister i in their original
\* order, followed by nTilde padding qubits.
C12_UpsampleLayout ==
    (pc # "start" /\ inp.nEnc % inp.d = 0) =>
        /\ pc # "raised"
        /\ build.nUp = inp.d * (build.n0 + inp.nTilde)
        /\ build.last_swap # <<>> =>
              \A k \in 1..2 : build.last_swap[k] \in 0..(build.nUp - 1)
        /\ (pc = "built" \/ ~swaps_left(build)) => EqualSubregisters(build)

C12_Witness ==
    /\ pc = "built"
    /\ inp.d = 3 /\ inp.nEnc = 6 /\ inp.nTilde = 2
    /\ build.swaps = 12
    /\ build.layout = <<0, 1, 6, 7, 2, 3, 8, 9, 4, 5, 10, 11>>

\* Where d does not divide the number of encoding qubits the builder still
\* returns a circuit.
UpsampleNeverRaises == pc # "raised"

====
